---- MODULE Spec2Model ----
(***************************************************************************)
(* TritonHTTP (pkg/tritonhttp): the request parser, the response builder,  *)
(* the request router and the per-connection session loop.                 *)
(*                                                                         *)
(* Byte strings are sequences of one-character strings.  One connection    *)
(* is served by one run of HandleConnection; the peer sends bytes in       *)
(* chunks, may stall (the read deadline then expires), may close its side  *)
(* (end of stream), and the socket may fail with another I/O error.        *)
(***************************************************************************)
EXTENDS Integers, Sequences, FiniteSets, TLC

(***************************************************************************)
(* Bounds of the model.                                                    *)
(***************************************************************************)
MaxReqs == 2          \* messages the peer sends on the connection
MaxRootDepth == 2     \* directory depth of the document root
MaxConns == 2         \* connections served concurrently
MaxPending == 2       \* requests a peer sends on one of these connections

(***************************************************************************)
(* Characters and string literals.                                         *)
(***************************************************************************)
CR == "\r"
LF == "\n"
SP == " "
CRLF == <<CR, LF>>

\* The characters of the model in ascending byte order (ASCII).
Chars ==
  <<LF, CR, SP, "-", ".", "/", "0", "1", "2", "4", ":",
    "A", "B", "C", "D", "E", "G", "H", "L", "M", "N", "O", "P", "R", "T", "U",
    "a", "b", "c", "d", "e", "f", "g", "h", "i", "l", "m", "n", "o", "p",
    "q", "r", "s", "t", "u", "x", "y">>

OrdOf == [c \in {Chars[i] : i \in 1..Len(Chars)} |->
            CHOOSE i \in 1..Len(Chars) : Chars[i] = c]

Ord(c) == OrdOf[c]

Uppers == <<"A", "B", "C", "D", "E", "G", "H", "L", "M", "N", "O", "P", "R", "T", "U">>
Lowers == <<"a", "b", "c", "d", "e", "g", "h", "l", "m", "n", "o", "p", "r", "t", "u">>

IsUpper(c) == \E i \in 1..Len(Uppers) : Uppers[i] = c
IsLowerLetter(c) == Ord(c) >= Ord("a") /\ Ord(c) <= Ord("y")
IsUpperLetter(c) == Ord(c) >= Ord("A") /\ Ord(c) <= Ord("U")
IsDigit(c) == Ord(c) >= Ord("0") /\ Ord(c) <= Ord("4")

ToUpper(c) ==
  IF \E i \in 1..Len(Lowers) : Lowers[i] = c
  THEN Uppers[CHOOSE i \in 1..Len(Lowers) : Lowers[i] = c]
  ELSE c

ToLower(c) ==
  IF IsUpper(c) THEN Lowers[CHOOSE i \in 1..Len(Uppers) : Uppers[i] = c] ELSE c

\* responseProto = "HTTP/1.1"
responseProto == <<"H", "T", "T", "P", "/", "1", ".", "1">>
statusOK == 200
statusMethodNotAllowed == 400
fileNotFound == 404

KeyHost == <<"H", "o", "s", "t">>
KeyConnection == <<"C", "o", "n", "n", "e", "c", "t", "i", "o", "n">>
KeyDate == <<"D", "a", "t", "e">>
KeyContentType == <<"C", "o", "n", "t", "e", "n", "t", "-", "T", "y", "p", "e">>
KeyContentLength ==
  <<"C", "o", "n", "t", "e", "n", "t", "-", "L", "e", "n", "g", "t", "h">>
KeyLastModified ==
  <<"L", "a", "s", "t", "-", "M", "o", "d", "i", "f", "i", "e", "d">>
ValClose == <<"c", "l", "o", "s", "e">>
GET == <<"G", "E", "T">>
IndexHTML == <<"i", "n", "d", "e", "x", ".", "h", "t", "m", "l">>

\* statusText
statusText(code) ==
  CASE code = statusOK -> <<"O", "K">>
    [] code = statusMethodNotAllowed ->
         <<"B", "a", "d", SP, "R", "e", "q", "u", "e", "s", "t">>
    [] code = fileNotFound -> <<"N", "o", "t", SP, "F", "o", "u", "n", "d">>
    [] OTHER -> <<>>

(***************************************************************************)
(* String helpers (package strings, fmt).                                  *)
(***************************************************************************)
\* s[from..] (1-based), empty when from is past the end
Drop(s, n) == SubSeq(s, n + 1, Len(s))
Take(s, n) == SubSeq(s, 1, n)

\* strings.IndexByte: the first position of c in s, 0 when absent
IndexByte(s, c) ==
  IF \E i \in 1..Len(s) : s[i] = c
  THEN CHOOSE i \in 1..Len(s) : s[i] = c /\ \A j \in 1..(i - 1) : s[j] # c
  ELSE 0

\* strings.SplitN(s, sep, n) for a one-byte separator and n > 0
RECURSIVE SplitN(_, _, _)
SplitN(s, sep, n) ==
  IF n = 1 \/ IndexByte(s, sep) = 0
  THEN <<s>>
  ELSE <<Take(s, IndexByte(s, sep) - 1)>>
         \o SplitN(Drop(s, IndexByte(s, sep)), sep, n - 1)

\* strings.Split(s, sep): no limit on the number of fields
Split(s, sep) == SplitN(s, sep, Len(s) + 1)

RECURSIVE TrimLeft(_, _)
TrimLeft(s, cutset) ==
  IF s # <<>> /\ s[1] \in cutset THEN TrimLeft(Tail(s), cutset) ELSE s

RECURSIVE TrimRight(_, _)
TrimRight(s, cutset) ==
  IF s # <<>> /\ s[Len(s)] \in cutset
  THEN TrimRight(Take(s, Len(s) - 1), cutset)
  ELSE s

HasPrefix(s, p) == Len(p) <= Len(s) /\ Take(s, Len(p)) = p

Digit(d) == <<"0", "1", "2", "3", "4", "5", "6", "7", "8", "9">>[d + 1]

\* fmt.Sprint of a non-negative integer
RECURSIVE Sprint(_)
Sprint(n) == IF n < 10 THEN <<Digit(n)>> ELSE Sprint(n \div 10) \o <<Digit(n % 10)>>

RECURSIVE Concat(_)
Concat(ss) == IF ss = <<>> THEN <<>> ELSE Head(ss) \o Concat(Tail(ss))

(***************************************************************************)
(* Line Reader.  ReadLine reads up to and including the first LF that      *)
(* follows a CR and returns the line without that CRLF; when the stream    *)
(* fails first it returns the bytes read so far together with the error.   *)
(***************************************************************************)
\* position of the LF of the first CRLF in buf, 0 when buf holds none
LineEnd(buf) ==
  IF \E i \in 2..Len(buf) : buf[i] = LF /\ buf[i - 1] = CR
  THEN CHOOSE i \in 2..Len(buf) :
         /\ buf[i] = LF /\ buf[i - 1] = CR
         /\ \A j \in 2..(i - 1) : ~(buf[j] = LF /\ buf[j - 1] = CR)
  ELSE 0

HasLine(buf) == LineEnd(buf) # 0

\* the line returned and the bytes left in the reader; err is "nil" or the
\* transport error that ended the read
ReadLine(buf, err) ==
  IF HasLine(buf)
  THEN [line |-> Take(buf, LineEnd(buf) - 2), rest |-> Drop(buf, LineEnd(buf)),
        err |-> "nil"]
  ELSE [line |-> buf, rest |-> <<>>, err |-> err]

(***************************************************************************)
(* Request Parser (request.go).                                            *)
(***************************************************************************)
EmptyMap == [k \in {} |-> <<>>]

\* headerMap[key] = val
MapSet(m, key, val) ==
  [k \in (DOMAIN m) \cup {key} |-> IF k = key THEN val ELSE m[k]]

NilRequest == [nil |-> TRUE]

\* parseStartLine: the fields, and whether there are exactly three
parseStartLine(line) ==
  [fields |-> SplitN(line, SP, 3), err |-> Len(SplitN(line, SP, 3)) # 3]

validKey(key) ==
  /\ Len(key) # 0
  /\ \A i \in 1..Len(key) :
       ~(/\ ~IsLowerLetter(key[i])
         /\ ~IsUpperLetter(key[i])
         /\ ~IsDigit(key[i])
         /\ key[i] # "-")

\* CanonicalHeaderKey: first letter and every letter after a hyphen in upper
\* case, all other letters in lower case
CanonicalHeaderKey(key) ==
  [i \in 1..Len(key) |->
     IF i = 1 \/ key[i - 1] = "-" THEN ToUpper(key[i]) ELSE ToLower(key[i])]

convertValue(val) == TrimRight(TrimLeft(val, {SP}), {CR, LF})

parseHeader(header) ==
  LET headerArr == SplitN(header, ":", 2) IN
  IF Len(headerArr) # 2 THEN [key |-> <<>>, val |-> <<>>, err |-> TRUE]
  ELSE IF ~validKey(headerArr[1]) THEN [key |-> <<>>, val |-> <<>>, err |-> TRUE]
  ELSE [key |-> CanonicalHeaderKey(headerArr[1]),
        val |-> convertValue(headerArr[2]), err |-> FALSE]

validMethod(method) == method = GET

validProto(proto) == proto = responseProto

\* validURL indexes URL[0]: an empty URL is a run-time panic
validURLPanics(URL) == Len(URL) = 0
validURL(URL) == URL[1] = "/"

\* the header loop with every Connection header taken as a request to close
RECURSIVE HeaderLoopAnyConnection(_, _, _)
HeaderLoopAnyConnection(headers, req, haveHost) ==
  IF headers = <<>>
  THEN [err |-> FALSE, req |-> req, haveHost |-> haveHost]
  ELSE LET h == parseHeader(Head(headers)) IN
       IF h.err THEN [err |-> TRUE, req |-> req, haveHost |-> haveHost]
       ELSE IF h.key = KeyHost
       THEN HeaderLoopAnyConnection(Tail(headers), [req EXCEPT !.Host = h.val], 1)
       ELSE IF h.key = KeyConnection
       THEN HeaderLoopAnyConnection(Tail(headers), [req EXCEPT !.Close = TRUE],
                                    haveHost)
       ELSE HeaderLoopAnyConnection(Tail(headers),
                       [req EXCEPT !.Header = MapSet(req.Header, h.key, h.val)],
                       haveHost)

\* the header loop of ReadRequest over requestLineArr[1:]
RECURSIVE HeaderLoop(_, _, _)
HeaderLoop(headers, req, haveHost) ==
  IF headers = <<>>
  THEN [err |-> FALSE, req |-> req, haveHost |-> haveHost]
  ELSE LET h == parseHeader(Head(headers)) IN
       IF h.err THEN [err |-> TRUE, req |-> req, haveHost |-> haveHost]
       ELSE IF h.key = KeyHost
       THEN HeaderLoop(Tail(headers), [req EXCEPT !.Host = h.val], 1)
       ELSE IF h.key = KeyConnection
       THEN HeaderLoop(Tail(headers),
                       IF h.val = ValClose THEN [req EXCEPT !.Close = TRUE] ELSE req,
                       haveHost)
       ELSE HeaderLoop(Tail(headers),
                       [req EXCEPT !.Header = MapSet(req.Header, h.key, h.val)],
                       haveHost)

\* the Host check left out
MissingHostIgnored(haveHost) == FALSE

\* if haveHost == 0 { return nil, bytesReceived, fmt.Errorf("Missing Host.") }
MissingHost(haveHost) == haveHost = 0

EmptyBadRequest ==
  <<"E", "m", "p", "t", "y", SP, "b", "a", "d", SP, "r", "e", "q", "u", "e", "s", "t">>

\* ReadRequest from the point where the line loop has ended with the lines
\* requestLineArr: kind is "ok" (req returned, err nil), "malformed" (nil
\* request and a malformed-request error) or "panic" (the goroutine panics)
ParseLines(requestLineArr) ==
  LET arr == IF Len(requestLineArr) = 0 THEN <<EmptyBadRequest>> ELSE requestLineArr
      startLine == parseStartLine(arr[1])
      req0 == [Method |-> startLine.fields[1], URL |-> startLine.fields[2],
               Proto |-> startLine.fields[3], Header |-> EmptyMap,
               Host |-> <<>>, Close |-> FALSE]
      loop == HeaderLoop(Tail(arr), req0, 0)
  IN
  IF startLine.err THEN [kind |-> "malformed", req |-> NilRequest]
  ELSE IF ~validMethod(req0.Method) THEN [kind |-> "malformed", req |-> NilRequest]
  ELSE IF validURLPanics(req0.URL) THEN [kind |-> "panic", req |-> NilRequest]
  ELSE IF ~validURL(req0.URL) THEN [kind |-> "malformed", req |-> NilRequest]
  ELSE IF ~validProto(req0.Proto) THEN [kind |-> "malformed", req |-> NilRequest]
  ELSE IF loop.err THEN [kind |-> "malformed", req |-> NilRequest]
  ELSE IF MissingHost(loop.haveHost) THEN [kind |-> "malformed", req |-> NilRequest]
  ELSE [kind |-> "ok", req |-> loop.req]

(***************************************************************************)
(* The document root and the file system under and around it.              *)
(***************************************************************************)
\* "/r", "/r/w", "/r/w/w", ...
RECURSIVE RootOfDepth(_)
RootOfDepth(d) ==
  IF d = 1 THEN <<"/", "r">> ELSE RootOfDepth(d - 1) \o <<"/", "w">>

DocRoots == {RootOfDepth(d) : d \in 1..MaxRootDepth}

\* the directory that holds the document root ("" for the root "/r")
ParentOf(root) == Take(root, Len(root) - 2)

NameD == <<"/", "d">>
NameST == <<"/", "s", ".", "t">>

\* os.Stat on path with the server rooted at root: a regular file, a
\* directory, or nothing
FileKind(root, path) ==
  IF path = root \o <<"/">> \o IndexHTML THEN "file"
  ELSE IF path = ParentOf(root) \o NameST THEN "file"
  ELSE IF path = root \o NameD THEN "dir"
  ELSE IF path = <<"/">> THEN "dir"
  ELSE IF HasPrefix(root, path) /\ (Len(path) = Len(root) \/ root[Len(path) + 1] = "/")
  THEN "dir"
  ELSE "none"

FileContent(root, path) ==
  IF path = root \o <<"/">> \o IndexHTML THEN <<"h", "i">> ELSE <<"s">>

\* MIMETypeByExtension: the MIME type of the extension, with a fallback
MIMETypeByExtension(ext) ==
  IF ext = <<".", "h", "t", "m", "l">>
  THEN <<"t", "e", "x", "t", "/", "h", "t", "m", "l">>
  ELSE <<"a", "p", "p", "l", "i", "c", "a", "t", "i", "o", "n", "/",
         "o", "c", "t", "e", "t", "-", "s", "t", "r", "e", "a", "m">>

\* FormatTime(time.Now()) and fmt.Sprint(file.ModTime()): opaque values
FormatTime == <<"n", "o", "w">>
ModTime == <<"m", "t">>

(***************************************************************************)
(* filepath.Clean for slash-separated paths.                               *)
(***************************************************************************)
RECURSIVE JoinSlash(_)
JoinSlash(segs) ==
  IF segs = <<>> THEN <<>>
  ELSE IF Len(segs) = 1 THEN segs[1]
  ELSE segs[1] \o <<"/">> \o JoinSlash(Tail(segs))

\* one pass over the segments: "" and "." are dropped, ".." removes the
\* segment before it, is dropped at the root and kept at the start of a
\* relative path
RECURSIVE CleanSegs(_, _, _)
CleanSegs(segs, stack, rooted) ==
  IF segs = <<>> THEN stack
  ELSE LET seg == Head(segs) IN
       IF seg = <<>> \/ seg = <<".">> THEN CleanSegs(Tail(segs), stack, rooted)
       ELSE IF seg = <<".", ".">>
       THEN IF stack # <<>> /\ stack[Len(stack)] # <<".", ".">>
            THEN CleanSegs(Tail(segs), Take(stack, Len(stack) - 1), rooted)
            ELSE IF rooted THEN CleanSegs(Tail(segs), stack, rooted)
            ELSE CleanSegs(Tail(segs), Append(stack, seg), rooted)
       ELSE CleanSegs(Tail(segs), Append(stack, seg), rooted)

Clean(path) ==
  IF path = <<>> THEN <<".">>
  ELSE LET rooted == path[1] = "/"
           out == JoinSlash(CleanSegs(Split(path, "/"), <<>>, rooted))
       IN IF rooted THEN <<"/">> \o out
          ELSE IF out = <<>> THEN <<".">> ELSE out

\* filepath.Rel fails when only one of the two paths is rooted
RelErr(basepath, targpath) == (basepath[1] = "/") # (targpath[1] = "/")

(***************************************************************************)
(* Response Builder (response.go): HandleOK, HandleNotFound,               *)
(* HandleBadRequest, HandleBadRequestTimeOut.                              *)
(***************************************************************************)
CloseHeader(req, resMap) ==
  IF req.Close THEN MapSet(resMap, KeyConnection, ValClose) ELSE resMap

\* HandleOK panics when the path holds no "." (index [1] of a one-element
\* split) and when os.Stat fails (file is nil)
HandleOKPanics(path, statOk) == Len(SplitN(path, ".", 2)) < 2 \/ ~statOk

HandleOK(req, path, size) ==
  LET ext == <<".">> \o SplitN(path, ".", 2)[2]
      m1 == MapSet(EmptyMap, KeyContentType, MIMETypeByExtension(ext))
      m2 == MapSet(m1, KeyDate, FormatTime)
      m3 == MapSet(m2, KeyContentLength, Sprint(size))
      m4 == MapSet(m3, KeyLastModified, ModTime)
  IN [StatusCode |-> statusOK, Proto |-> responseProto, FilePath |-> path,
      Request |-> req, Header |-> CloseHeader(req, m4)]

\* HandleNotFound without the Connection header
HandleNotFoundNoClose(req) ==
  [StatusCode |-> fileNotFound, Proto |-> responseProto, FilePath |-> <<>>,
   Request |-> req, Header |-> MapSet(EmptyMap, KeyDate, FormatTime)]

HandleNotFound(req) ==
  [StatusCode |-> fileNotFound, Proto |-> responseProto, FilePath |-> <<>>,
   Request |-> req, Header |-> CloseHeader(req, MapSet(EmptyMap, KeyDate, FormatTime))]

HandleBadRequest ==
  [StatusCode |-> statusMethodNotAllowed, Proto |-> responseProto,
   FilePath |-> <<>>, Request |-> NilRequest,
   Header |-> MapSet(MapSet(EmptyMap, KeyConnection, ValClose), KeyDate, FormatTime)]

HandleBadRequestTimeOut ==
  [StatusCode |-> statusMethodNotAllowed, Proto |-> responseProto,
   FilePath |-> <<>>, Request |-> NilRequest,
   Header |-> MapSet(MapSet(EmptyMap, KeyConnection, ValClose), KeyDate, FormatTime)]

(***************************************************************************)
(* Request Router (response.go): HandleGoodRequest.                        *)
(***************************************************************************)
exists(root, path) == FileKind(root, path) # "none"

\* the size os.Stat reports
StatSize(root, path) ==
  IF FileKind(root, path) = "file" THEN Len(FileContent(root, path)) ELSE 0

\* the positional comparison of the root's segments with the path's: "ok"
\* when all agree, "notfound" at the first difference, "panic" when the
\* path has fewer segments than the root and agrees up to its end
RootCheck(root_split, url_split) ==
  LET bad(i) == i > Len(url_split) \/ url_split[i] # root_split[i] IN
  IF \A i \in 1..Len(root_split) : ~bad(i) THEN "ok"
  ELSE LET first == CHOOSE i \in 1..Len(root_split) :
                      bad(i) /\ \A j \in 1..(i - 1) : ~bad(j)
       IN IF first > Len(url_split) THEN "panic" ELSE "notfound"

\* kind is "res" (the response built) or "panic"; stat tells what the
\* os.Stat of HandleOK did: "na" (not reached), "ok" or "fail"
HandleGoodRequest(root, req, statOk) ==
  LET req_url == IF req.URL[Len(req.URL)] = "/" THEN req.URL \o IndexHTML ELSE req.URL
      url_split_concat == root \o req_url
      path == Clean(url_split_concat)
      url_split == Split(path, "/")
      root_split == Split(root, "/")
      check == RootCheck(root_split, url_split)
  IN
  IF check = "panic" THEN [kind |-> "panic", res |-> HandleBadRequest, stat |-> "na"]
  ELSE IF check = "notfound"
  THEN [kind |-> "res", res |-> HandleNotFound(req), stat |-> "na"]
  ELSE IF RelErr(root, path)
  THEN [kind |-> "res", res |-> HandleNotFound(req), stat |-> "na"]
  ELSE IF exists(root, path)
  THEN IF HandleOKPanics(path, statOk)
       THEN [kind |-> "panic", res |-> HandleBadRequest,
             stat |-> IF statOk THEN "ok" ELSE "fail"]
       ELSE [kind |-> "res", res |-> HandleOK(req, path, StatSize(root, path)),
             stat |-> "ok"]
  ELSE [kind |-> "res", res |-> HandleNotFound(req), stat |-> "na"]

(***************************************************************************)
(* The messages a peer sends.  line is the start line, headers the header  *)
(* lines; wellformed says whether the message is a valid request by the    *)
(* protocol (GET, a URL that starts with "/", HTTP/1.1, well-formed header *)
(* lines, a Host header), close whether it asks to close the connection,   *)
(* and url is the URL it names.                                            *)
(***************************************************************************)
\* GET / HTTP/1.1 | Host: x
Msg1 ==
  [line |-> <<"G", "E", "T", SP, "/", SP, "H", "T", "T", "P", "/", "1", ".", "1">>,
   headers |-> <<<<"H", "o", "s", "t", ":", SP, "x">>>>,
   wellformed |-> TRUE, close |-> FALSE,
   url |-> <<"/">>]

\* GET /m.t HTTP/1.1 | Host: x
Msg2 ==
  [line |-> <<"G", "E", "T", SP, "/", "m", ".", "t", SP, "H", "T", "T", "P", "/", "1", ".", "1">>,
   headers |-> <<<<"H", "o", "s", "t", ":", SP, "x">>>>,
   wellformed |-> TRUE, close |-> FALSE,
   url |-> <<"/", "m", ".", "t">>]

\* GET /.. HTTP/1.1 | Host: x
Msg3 ==
  [line |-> <<"G", "E", "T", SP, "/", ".", ".", SP, "H", "T", "T", "P", "/", "1", ".", "1">>,
   headers |-> <<<<"H", "o", "s", "t", ":", SP, "x">>>>,
   wellformed |-> TRUE, close |-> FALSE,
   url |-> <<"/", ".", ".">>]

\* GET /../s.t HTTP/1.1 | Host: x
Msg4 ==
  [line |-> <<"G", "E", "T", SP, "/", ".", ".", "/", "s", ".", "t", SP, "H", "T", "T", "P", "/", "1", ".", "1">>,
   headers |-> <<<<"H", "o", "s", "t", ":", SP, "x">>>>,
   wellformed |-> TRUE, close |-> FALSE,
   url |-> <<"/", ".", ".", "/", "s", ".", "t">>]

\* GET /d HTTP/1.1 | Host: x
Msg5 ==
  [line |-> <<"G", "E", "T", SP, "/", "d", SP, "H", "T", "T", "P", "/", "1", ".", "1">>,
   headers |-> <<<<"H", "o", "s", "t", ":", SP, "x">>>>,
   wellformed |-> TRUE, close |-> FALSE,
   url |-> <<"/", "d">>]

\* GET  HTTP/1.1 | Host: x
Msg6 ==
  [line |-> <<"G", "E", "T", SP, SP, "H", "T", "T", "P", "/", "1", ".", "1">>,
   headers |-> <<<<"H", "o", "s", "t", ":", SP, "x">>>>,
   wellformed |-> FALSE, close |-> FALSE,
   url |-> <<>>]

\* GET x HTTP/1.1 | Host: x
Msg7 ==
  [line |-> <<"G", "E", "T", SP, "x", SP, "H", "T", "T", "P", "/", "1", ".", "1">>,
   headers |-> <<<<"H", "o", "s", "t", ":", SP, "x">>>>,
   wellformed |-> FALSE, close |-> FALSE,
   url |-> <<"x">>]

\* PUT / HTTP/1.1 | Host: x
Msg8 ==
  [line |-> <<"P", "U", "T", SP, "/", SP, "H", "T", "T", "P", "/", "1", ".", "1">>,
   headers |-> <<<<"H", "o", "s", "t", ":", SP, "x">>>>,
   wellformed |-> FALSE, close |-> FALSE,
   url |-> <<"/">>]

\* GET / HTTP/1.0 | Host: x
Msg9 ==
  [line |-> <<"G", "E", "T", SP, "/", SP, "H", "T", "T", "P", "/", "1", ".", "0">>,
   headers |-> <<<<"H", "o", "s", "t", ":", SP, "x">>>>,
   wellformed |-> FALSE, close |-> FALSE,
   url |-> <<"/">>]

\* GET / | Host: x
Msg10 ==
  [line |-> <<"G", "E", "T", SP, "/">>,
   headers |-> <<<<"H", "o", "s", "t", ":", SP, "x">>>>,
   wellformed |-> FALSE, close |-> FALSE,
   url |-> <<"/">>]

\* GET / HTTP/1.1 | 
Msg11 ==
  [line |-> <<"G", "E", "T", SP, "/", SP, "H", "T", "T", "P", "/", "1", ".", "1">>,
   headers |-> <<>>,
   wellformed |-> FALSE, close |-> FALSE,
   url |-> <<"/">>]

\* GET /index.html HTTP/1.1 | host:x
Msg12 ==
  [line |-> <<"G", "E", "T", SP, "/", "i", "n", "d", "e", "x", ".", "h", "t", "m", "l", SP, "H", "T", "T", "P", "/", "1", ".", "1">>,
   headers |-> <<<<"h", "o", "s", "t", ":", "x">>>>,
   wellformed |-> TRUE, close |-> FALSE,
   url |-> <<"/", "i", "n", "d", "e", "x", ".", "h", "t", "m", "l">>]

\* GET / HTTP/1.1 | Host: x | Connection: close
Msg13 ==
  [line |-> <<"G", "E", "T", SP, "/", SP, "H", "T", "T", "P", "/", "1", ".", "1">>,
   headers |-> <<<<"H", "o", "s", "t", ":", SP, "x">>,
               <<"C", "o", "n", "n", "e", "c", "t", "i", "o", "n", ":", SP, "c", "l", "o", "s", "e">>>>,
   wellformed |-> TRUE, close |-> TRUE,
   url |-> <<"/">>]

\* GET /m.t HTTP/1.1 | Host: x | Connection: Close
Msg14 ==
  [line |-> <<"G", "E", "T", SP, "/", "m", ".", "t", SP, "H", "T", "T", "P", "/", "1", ".", "1">>,
   headers |-> <<<<"H", "o", "s", "t", ":", SP, "x">>,
               <<"C", "o", "n", "n", "e", "c", "t", "i", "o", "n", ":", SP, "C", "l", "o", "s", "e">>>>,
   wellformed |-> TRUE, close |-> FALSE,
   url |-> <<"/", "m", ".", "t">>]

\* GET / HTTP/1.1 | Host x
Msg15 ==
  [line |-> <<"G", "E", "T", SP, "/", SP, "H", "T", "T", "P", "/", "1", ".", "1">>,
   headers |-> <<<<"H", "o", "s", "t", SP, "x">>>>,
   wellformed |-> FALSE, close |-> FALSE,
   url |-> <<"/">>]

\* GET / HTTP/1.1 | Host: x | : x
Msg16 ==
  [line |-> <<"G", "E", "T", SP, "/", SP, "H", "T", "T", "P", "/", "1", ".", "1">>,
   headers |-> <<<<"H", "o", "s", "t", ":", SP, "x">>,
               <<":", SP, "x">>>>,
   wellformed |-> FALSE, close |-> FALSE,
   url |-> <<"/">>]

\* GET / HTTP/1.1 | A-b: y | Host: x
Msg17 ==
  [line |-> <<"G", "E", "T", SP, "/", SP, "H", "T", "T", "P", "/", "1", ".", "1">>,
   headers |-> <<<<"A", "-", "b", ":", SP, "y">>,
               <<"H", "o", "s", "t", ":", SP, "x">>>>,
   wellformed |-> TRUE, close |-> FALSE,
   url |-> <<"/">>]

\* GET / HTTP/1.1 | Connection: close
Msg18 ==
  [line |-> <<"G", "E", "T", SP, "/", SP, "H", "T", "T", "P", "/", "1", ".", "1">>,
   headers |-> <<<<"C", "o", "n", "n", "e", "c", "t", "i", "o", "n", ":", SP, "c", "l", "o", "s", "e">>>>,
   wellformed |-> FALSE, close |-> TRUE,
   url |-> <<"/">>]

\* GET /m.t HTTP/1.1 | connection:close | Host: x
Msg19 ==
  [line |-> <<"G", "E", "T", SP, "/", "m", ".", "t", SP, "H", "T", "T", "P", "/", "1", ".", "1">>,
   headers |-> <<<<"c", "o", "n", "n", "e", "c", "t", "i", "o", "n", ":", "c", "l", "o", "s", "e">>,
               <<"H", "o", "s", "t", ":", SP, "x">>>>,
   wellformed |-> TRUE, close |-> TRUE,
   url |-> <<"/", "m", ".", "t">>]

\* an empty start line followed by an empty line
Msg20 ==
  [line |-> <<>>, headers |-> <<>>, wellformed |-> FALSE, close |-> FALSE,
   url |-> <<>>]

\* the first message of a connection
Msgs ==
  {Msg1, Msg2, Msg3, Msg4, Msg5, Msg6,
   Msg7, Msg8, Msg9, Msg10, Msg11, Msg12,
   Msg13, Msg14, Msg15, Msg16, Msg17, Msg18,
   Msg19, Msg20}

\* the messages pipelined behind it
Followers == {Msg7, Msg12}

\* the bytes of a message: start line, header lines, empty line
MsgBytes(m) ==
  m.line \o CRLF \o Concat([i \in 1..Len(m.headers) |-> m.headers[i] \o CRLF]) \o CRLF

\* the scripts of a peer: one first message and up to MaxReqs - 1 followers
RECURSIVE FollowerSeqs(_)
FollowerSeqs(n) ==
  IF n = 0 THEN {<<>>}
  ELSE FollowerSeqs(n - 1)
         \cup {Append(q, m) : q \in {r \in FollowerSeqs(n - 1) : Len(r) = n - 1},
                              m \in Followers}

Scripts == {<<m>> \o q : m \in Msgs, q \in FollowerSeqs(MaxReqs - 1)}

ScriptBytes(script) == Concat([i \in 1..Len(script) |-> MsgBytes(script[i])])

(***************************************************************************)
(* Response.Write: WriteStatusLine, WriteSortedHeaders, WriteBody.         *)
(***************************************************************************)
\* a < b in the byte order of Go strings
StrLess(a, b) ==
  \/ \E i \in 1..Len(a) :
       /\ i <= Len(b)
       /\ Ord(a[i]) < Ord(b[i])
       /\ \A j \in 1..(i - 1) : a[j] = b[j]
  \/ Len(a) < Len(b) /\ \A j \in 1..Len(a) : a[j] = b[j]

\* the keys in descending order
RECURSIVE SortStringsDescending(_)
SortStringsDescending(keys) ==
  IF keys = {} THEN <<>>
  ELSE LET greatest == CHOOSE k \in keys : \A j \in keys \ {k} : StrLess(j, k)
       IN <<greatest>> \o SortStringsDescending(keys \ {greatest})

\* sort.Strings on the keys of the header map
RECURSIVE SortStrings(_)
SortStrings(keys) ==
  IF keys = {} THEN <<>>
  ELSE LET least == CHOOSE k \in keys : \A j \in keys \ {k} : StrLess(k, j)
       IN <<least>> \o SortStrings(keys \ {least})

StatusLine(res) ==
  res.Proto \o <<SP>> \o Sprint(res.StatusCode) \o <<SP>>
    \o statusText(res.StatusCode) \o CRLF

\* headerLine = headerLine + key + ": " + res.Header[key] + "\r\n"
RECURSIVE HeaderLines(_, _)
HeaderLines(keyArray, Header) ==
  IF keyArray = <<>> THEN <<>>
  ELSE Head(keyArray) \o <<":", SP>> \o Header[Head(keyArray)] \o CRLF
         \o HeaderLines(Tail(keyArray), Header)

SortedHeaders(res) == HeaderLines(SortStrings(DOMAIN res.Header), res.Header) \o CRLF

\* os.ReadFile fails on a directory and on a missing file
ReadFileOk(root, path) == FileKind(root, path) = "file"

\* what reaches the peer of a section whose write fails: nothing of it
\* (part "none") or all but its last byte (part "most")
Partial(section, part) ==
  IF part = "none" THEN <<>> ELSE Take(section, Len(section) - 1)

\* Write with the transport failing in section wfail ("none": no failure)
\* after the part k of that section; the bytes that reach the peer and the
\* error returned
Write(res, root, wfail, k) ==
  LET status == StatusLine(res)
      headers == SortedHeaders(res)
      body == IF res.FilePath = <<>> THEN <<>> ELSE FileContent(root, res.FilePath)
  IN
  IF wfail = "status" THEN [bytes |-> Partial(status, k), err |-> TRUE]
  ELSE IF wfail = "headers"
  THEN [bytes |-> status \o Partial(headers, k), err |-> TRUE]
  ELSE IF res.FilePath = <<>> THEN [bytes |-> status \o headers, err |-> FALSE]
  ELSE IF ~ReadFileOk(root, res.FilePath)
  THEN [bytes |-> status \o headers, err |-> TRUE]
  ELSE IF wfail = "body"
  THEN [bytes |-> status \o headers \o Partial(body, k), err |-> TRUE]
  ELSE [bytes |-> status \o headers \o body, err |-> FALSE]

(***************************************************************************)
(* Connection Session: HandleConnection on one accepted connection.        *)
(***************************************************************************)
VARIABLES
  DocRoot,         \* s.DocRoot
  script,          \* the messages the peer sends on this connection
  toSend,          \* bytes the peer has not sent yet
  sends,           \* number of writes of the peer so far (at most two)
  wire,            \* bytes sent and not yet consumed by the reader br
  peerClosed,      \* the peer has closed its side
  pc,              \* where HandleConnection is: "loop", "peek", "readline",
                   \* "closed" (returned after conn.Close), "panic"
  requestLineArr,  \* the lines ReadRequest has accumulated
  consumed,        \* bytes the current attempt has taken from the stream
  out,             \* the responses written to conn, in order
  lastWrite,       \* the bytes and the error of the latest Response.Write
  log,             \* one entry for every finished request attempt (one
                   \* iteration of the loop of HandleConnection)
  armedFor,        \* the attempt at whose start the read deadline was last
                   \* armed (0: never)
  conns,           \* the server as a whole: for every connection its state
                   \* ("unaccepted", "open", "closed"), the requests sent
                   \* and not yet read, and the status codes written
  panicked         \* the connection whose goroutine panicked and ended the
                   \* process (0: the process runs)

vars ==
  <<DocRoot, script, toSend, sends, wire, peerClosed, pc, requestLineArr,
    consumed, out, lastWrite, log, armedFor, conns, panicked>>

\* the variables of one connection session
session ==
  <<script, toSend, sends, wire, peerClosed, pc, requestLineArr, consumed, out,
    lastWrite, log, armedFor>>

\* the variables of the server as a whole
server == <<conns, panicked>>

Conns == 1..MaxConns

NoConns == [c \in Conns |-> [state |-> "unaccepted", pending |-> <<>>,
                              sent |-> 0, responses |-> <<>>]]

Init ==
  /\ DocRoot \in DocRoots
  /\ script \in Scripts
  /\ toSend = ScriptBytes(script)
  /\ sends = 0
  /\ wire = <<>>
  /\ peerClosed = FALSE
  /\ pc = "loop"
  /\ requestLineArr = <<>>
  /\ consumed = 0
  /\ out = <<>>
  /\ lastWrite = [bytes |-> <<>>, err |-> FALSE]
  /\ log = <<>>
  /\ armedFor = 0
  /\ conns = NoConns
  /\ panicked = 0

(***************************************************************************)
(* The peer.                                                               *)
(***************************************************************************)
\* the positions of the line ends of buf
LineEnds(buf) == {i \in 2..Len(buf) : buf[i] = LF /\ buf[i - 1] = CR}

\* the middle of the line that ends at e
MidLine(buf, e) ==
  LET before == {0} \cup {i \in LineEnds(buf) : i < e}
      start == CHOOSE i \in before : \A j \in before : j <= i
  IN start + ((e - 2 - start) \div 2)

\* where the first write of the peer may end: at the end of the stream, at
\* the end of a line, or in the middle of a line
Cuts(buf) ==
  ({Len(buf)} \cup LineEnds(buf) \cup {MidLine(buf, e) : e \in LineEnds(buf)}) \ {0}

\* the connection is open: HandleConnection has not returned and the
\* process has not died (what the peer does after that has no effect)
Open == pc \notin {"closed", "panic"}

\* the first write: the whole stream or a part of it; the peer then stalls
ClientSendFirst ==
  /\ Open
  /\ ~peerClosed
  /\ sends = 0
  /\ \E k \in Cuts(toSend) :
       /\ wire' = wire \o Take(toSend, k)
       /\ toSend' = Drop(toSend, k)
  /\ sends' = 1
  /\ UNCHANGED <<DocRoot, script, peerClosed, pc, requestLineArr, consumed, out,
                 lastWrite, log>>
  /\ UNCHANGED <<armedFor, conns, panicked>>

\* the second write: the rest of the stream
ClientSendRest ==
  /\ Open
  /\ ~peerClosed
  /\ sends = 1
  /\ toSend # <<>>
  /\ wire' = wire \o toSend
  /\ toSend' = <<>>
  /\ sends' = 2
  /\ UNCHANGED <<DocRoot, script, peerClosed, pc, requestLineArr, consumed, out,
                 lastWrite, log>>
  /\ UNCHANGED <<armedFor, conns, panicked>>

ClientClose ==
  /\ Open
  /\ ~peerClosed
  /\ peerClosed' = TRUE
  /\ toSend' = <<>>
  /\ UNCHANGED <<DocRoot, script, sends, wire, pc, requestLineArr, consumed, out,
                 lastWrite, log>>
  /\ UNCHANGED <<armedFor, conns, panicked>>

(***************************************************************************)
(* The session loop.  A call of ReadRequest ends with a result r:          *)
(*   kind "ok": the request req and a nil error;                           *)
(*   kind "err": a nil request and the error err, "eof", "timeout",        *)
(*     "other" (another socket failure) or "malformed";                    *)
(*   kind "panic": the goroutine panicked inside ReadRequest.              *)
(***************************************************************************)
\* what ReadRequest returns once its line loop has ended
ParseResult(lines) ==
  LET p == ParseLines(lines) IN
  [kind |-> IF p.kind = "malformed" THEN "err" ELSE p.kind,
   req |-> p.req, bytesReceived |-> TRUE,
   err |-> IF p.kind = "malformed" THEN "malformed" ELSE "nil"]

TransportResult(bytesReceived, err) ==
  [kind |-> "err", req |-> NilRequest, bytesReceived |-> bytesReceived, err |-> err]

\* the branches without the test for io.EOF
BranchNoEOF(r) ==
  IF r.err = "timeout" /\ ~r.bytesReceived THEN "close"
  ELSE IF r.err = "timeout" /\ r.bytesReceived THEN "timeout400"
  ELSE IF r.err # "nil" THEN "bad400"
  ELSE "good"

\* end of stream after some bytes treated like any other error
BranchPartialEOF(r) ==
  IF r.err = "eof" /\ ~r.bytesReceived THEN "close"
  ELSE IF r.err = "timeout" /\ ~r.bytesReceived THEN "close"
  ELSE IF r.err = "timeout" /\ r.bytesReceived THEN "timeout400"
  ELSE IF r.err # "nil" THEN "bad400"
  ELSE "good"

\* the branch HandleConnection takes on the result of ReadRequest:
\* "close" (close without a response), "timeout400", "bad400", "good"
Branch(r) ==
  IF r.err = "eof" THEN "close"
  ELSE IF r.err = "timeout" /\ ~r.bytesReceived THEN "close"
  ELSE IF r.err = "timeout" /\ r.bytesReceived THEN "timeout400"
  ELSE IF r.err # "nil" THEN "bad400"
  ELSE "good"

\* a 400 without the return
AfterBadRequestLoops == "loop"

\* after a 400: conn.Close and return
AfterBadRequest == "closed"

\* the close flag ignored
AfterGoodRequestKeepAlive(req) == "loop"

\* the loop re-entered behind the arming of the deadline
AfterGoodRequestNoRearm(req) == IF req.Close THEN "closed" ELSE "peek"

\* after the response to a good request: close if requested, else loop
AfterGoodRequest(req) == IF req.Close THEN "closed" ELSE "loop"

\* the ways a write can fail for a response
WriteChoices(res) ==
  {<<"none", "none">>}
    \cup {<<w, k>> : w \in (IF res.FilePath = <<>> THEN {"status", "headers"}
                            ELSE {"status", "headers", "body"}),
                     k \in {"none", "most"}}

LogEntry(r, event, nresp, after, stat) ==
  [event |-> event, consumed |-> consumed', kind |-> r.kind, err |-> r.err,
   bytesReceived |-> r.bytesReceived, req |-> r.req,
   lines |-> requestLineArr, nresp |-> nresp, after |-> after, stat |-> stat,
   deadline |-> armedFor]

OutEntry(res) == [res |-> res, attempt |-> Len(log) + 1]

\* res.Write(conn) with any of the outcomes the transport allows
WriteResponse(res) ==
  /\ out' = Append(out, OutEntry(res))
  /\ \E c \in WriteChoices(res) : lastWrite' = Write(res, DocRoot, c[1], c[2])

\* HandleConnection from the return of ReadRequest to the next blocking
\* point; event is the transport event that ended the read ("none" when
\* the stream delivered what was read)
Finish(r, event) ==
  \/ /\ r.kind = "panic"
     /\ pc' = "panic"
     /\ UNCHANGED <<out, lastWrite>>
     /\ log' = Append(log, LogEntry(r, event, 0, "panic", "na"))
  \/ /\ r.kind # "panic"
     /\ Branch(r) = "close"
     /\ pc' = "closed"
     /\ UNCHANGED <<out, lastWrite>>
     /\ log' = Append(log, LogEntry(r, event, 0, "closed", "na"))
  \/ /\ r.kind # "panic"
     /\ Branch(r) \in {"timeout400", "bad400"}
     /\ WriteResponse(IF Branch(r) = "timeout400" THEN HandleBadRequestTimeOut
                      ELSE HandleBadRequest)
     /\ pc' = AfterBadRequest
     /\ log' = Append(log, LogEntry(r, event, 1, AfterBadRequest, "na"))
  \/ /\ r.kind # "panic"
     /\ Branch(r) = "good"
     /\ \E statOk \in BOOLEAN :
          LET g == HandleGoodRequest(DocRoot, r.req, statOk) IN
          \/ /\ g.kind = "panic"
             /\ pc' = "panic"
             /\ UNCHANGED <<out, lastWrite>>
             /\ log' = Append(log, LogEntry(r, event, 0, "panic", g.stat))
          \/ /\ g.kind = "res"
             /\ WriteResponse(g.res)
             /\ pc' = AfterGoodRequest(r.req)
             /\ log' = Append(log, LogEntry(r, event, 1, AfterGoodRequest(r.req),
                                           g.stat))

\* conn.SetReadDeadline(time.Now().Add(5 * time.Second)) succeeds
SetReadDeadline ==
  /\ pc = "loop"
  /\ pc' = "peek"
  /\ requestLineArr' = <<>>
  /\ consumed' = 0
  /\ UNCHANGED <<DocRoot, script, toSend, sends, wire, peerClosed, out,
                 lastWrite, log>>
  /\ armedFor' = Len(log) + 1
  /\ UNCHANGED server

\* conn.SetReadDeadline fails: conn.Close and return
SetReadDeadlineFails ==
  /\ pc = "loop"
  /\ pc' = "closed"
  /\ log' = Append(log, [event |-> "armfail", consumed |-> 0, kind |-> "noread",
                         err |-> "nil", bytesReceived |-> FALSE,
                         req |-> NilRequest, lines |-> <<>>, nresp |-> 0,
                         after |-> "closed", stat |-> "na",
                         deadline |-> armedFor])
  /\ UNCHANGED <<DocRoot, script, toSend, sends, wire, peerClosed,
                 requestLineArr, consumed, out, lastWrite>>
  /\ UNCHANGED <<armedFor, conns, panicked>>

\* br.Peek(1) finds a byte: bytesReceived = true
PeekOk ==
  /\ pc = "peek"
  /\ wire # <<>>
  /\ pc' = "readline"
  /\ UNCHANGED <<DocRoot, script, toSend, sends, wire, peerClosed,
                 requestLineArr, consumed, out, lastWrite, log>>
  /\ UNCHANGED <<armedFor, conns, panicked>>

\* ReadLine returns a complete line: a non-empty line is appended and the
\* loop goes on, an empty line ends the loop
ReadLineOk ==
  /\ pc = "readline"
  /\ HasLine(wire)
  /\ LET rl == ReadLine(wire, "nil") IN
     /\ wire' = rl.rest
     /\ consumed' = consumed + LineEnd(wire)
     /\ IF rl.line # <<>>
        THEN /\ requestLineArr' = Append(requestLineArr, rl.line)
             /\ UNCHANGED <<pc, out, lastWrite, log>>
        ELSE /\ requestLineArr' = requestLineArr
             /\ Finish(ParseResult(requestLineArr), "none")
  /\ UNCHANGED <<DocRoot, script, toSend, sends, peerClosed>>
  /\ UNCHANGED <<armedFor, conns, panicked>>

\* the stream has nothing more for the pending read
ReadBlocked ==
  \/ pc = "peek" /\ wire = <<>>
  \/ pc = "readline" /\ ~HasLine(wire)

\* the pending read fails with the transport error e.  Peek returns the
\* error with bytesReceived = false.  ReadLine returns the bytes read so far
\* and the error: a non-empty partial line makes ReadRequest return the
\* error, an empty one ends the line loop like an empty line does (the
\* loop condition temp_line != "" is tested before err is looked at)
ReadFails(e) ==
  /\ ReadBlocked
  /\ IF pc = "peek"
     THEN /\ UNCHANGED <<wire, consumed>>
          /\ Finish(TransportResult(FALSE, e), e)
     ELSE LET rl == ReadLine(wire, e) IN
          /\ wire' = rl.rest
          /\ consumed' = consumed + Len(wire)
          /\ IF rl.line # <<>>
             THEN Finish(TransportResult(TRUE, rl.err), e)
             ELSE Finish(ParseResult(requestLineArr), e)
  /\ UNCHANGED <<DocRoot, script, toSend, sends, peerClosed, requestLineArr>>
  /\ UNCHANGED <<armedFor, conns, panicked>>

\* the peer stalls and the read deadline expires
DeadlineExpires == ~peerClosed /\ ReadFails("timeout")

\* the peer has closed its side: io.EOF
EndOfStream == peerClosed /\ ReadFails("eof")

\* the socket fails in another way
SocketError == ReadFails("other")

Next ==
  \/ ClientSendFirst
  \/ ClientSendRest
  \/ ClientClose
  \/ SetReadDeadline
  \/ SetReadDeadlineFails
  \/ PeekOk
  \/ ReadLineOk
  \/ DeadlineExpires
  \/ EndOfStream
  \/ SocketError

Spec == Init /\ [][Next]_vars

TypeOK ==
  /\ pc \in {"loop", "peek", "readline", "closed", "panic"}
  /\ Len(out) <= Len(log)

(***************************************************************************)
(* The server as a whole: ListenAndServe accepts connections and starts    *)
(* one goroutine running HandleConnection for each.  The goroutines share  *)
(* the process: a panic that no goroutine recovers ends the process and    *)
(* with it the accept loop and every other goroutine.  Here every request  *)
(* arrives complete, and one step of a goroutine is one iteration of the   *)
(* loop of HandleConnection.                                               *)
(***************************************************************************)
\* what the peers of these connections send: a valid request, a URL that
\* climbs out of the root, a directory, and a malformed start line
ServerMsgs == {Msg1, Msg3, Msg5, Msg7}

\* the process has not been ended by a panic
Running == panicked = 0

ServerInit ==
  /\ DocRoot \in DocRoots
  /\ script = <<>>
  /\ toSend = <<>>
  /\ sends = 0
  /\ wire = <<>>
  /\ peerClosed = FALSE
  /\ pc = "loop"
  /\ requestLineArr = <<>>
  /\ consumed = 0
  /\ out = <<>>
  /\ lastWrite = [bytes |-> <<>>, err |-> FALSE]
  /\ log = <<>>
  /\ armedFor = 0
  /\ conns = NoConns
  /\ panicked = 0

\* the peer of connection c sends the request m
PeerSends(c, m) ==
  /\ Running
  /\ conns[c].state # "closed"
  /\ conns[c].sent < MaxPending
  /\ conns' = [conns EXCEPT ![c].pending = Append(@, m), ![c].sent = @ + 1]
  /\ UNCHANGED <<DocRoot, panicked>>
  /\ UNCHANGED session

\* conn, err := ln.Accept(); go s.HandleConnection(conn)
Accept(c) ==
  /\ Running
  /\ conns[c].state = "unaccepted"
  /\ conns' = [conns EXCEPT ![c].state = "open"]
  /\ UNCHANGED <<DocRoot, panicked>>
  /\ UNCHANGED session

\* the goroutine of connection c reads the next request and answers it
HandleConnection(c) ==
  /\ Running
  /\ conns[c].state = "open"
  /\ conns[c].pending # <<>>
  /\ LET m == Head(conns[c].pending)
         r == ParseResult(<<m.line>> \o m.headers)
         rest == [conns EXCEPT ![c].pending = Tail(@)]
     IN
     \/ /\ r.kind = "panic"
        /\ panicked' = c
        /\ conns' = rest
     \/ /\ r.kind # "panic"
        /\ Branch(r) = "bad400"
        /\ conns' = [rest EXCEPT ![c].responses = Append(@, HandleBadRequest.StatusCode),
                                 ![c].state = AfterBadRequest]
        /\ UNCHANGED panicked
     \/ /\ r.kind # "panic"
        /\ Branch(r) = "good"
        /\ \E statOk \in BOOLEAN :
             LET g == HandleGoodRequest(DocRoot, r.req, statOk) IN
             \/ /\ g.kind = "panic"
                /\ panicked' = c
                /\ conns' = rest
             \/ /\ g.kind = "res"
                /\ conns' = [rest EXCEPT
                               ![c].responses = Append(@, g.res.StatusCode),
                               ![c].state = IF AfterGoodRequest(r.req) = "closed"
                                            THEN "closed" ELSE "open"]
                /\ UNCHANGED panicked
  /\ UNCHANGED DocRoot
  /\ UNCHANGED session

\* the read deadline of connection c expires with nothing received
IdleTimeout(c) ==
  /\ Running
  /\ conns[c].state = "open"
  /\ conns[c].pending = <<>>
  /\ conns' = [conns EXCEPT ![c].state = "closed"]
  /\ UNCHANGED <<DocRoot, panicked>>
  /\ UNCHANGED session

ServerNext ==
  \/ \E c \in Conns : \E m \in ServerMsgs : PeerSends(c, m)
  \/ \E c \in Conns : Accept(c)
  \/ \E c \in Conns : HandleConnection(c)
  \/ \E c \in Conns : IdleTimeout(c)

ServerSpec == ServerInit /\ [][ServerNext]_vars

(***************************************************************************)
(* Properties.                                                             *)
(***************************************************************************)
\* the responses written during attempt i
ResponsesOf(i) == {j \in DOMAIN out : out[j].attempt = i}

HasConnectionClose(res) ==
  KeyConnection \in DOMAIN res.Header /\ res.Header[KeyConnection] = ValClose

\* attempt i ended with one 400 response that carries Connection: close
OneBadRequest(i) ==
  /\ log[i].nresp = 1
  /\ Cardinality(ResponsesOf(i)) = 1
  /\ \A j \in ResponsesOf(i) :
       out[j].res.StatusCode = 400 /\ HasConnectionClose(out[j].res)

\* the connection was closed at the end of attempt i and nothing was read
\* or written on it after that
ClosedAt(i) ==
  /\ log[i].after = "closed"
  /\ i = Len(log)
  /\ pc = "closed"
  /\ \A j \in DOMAIN out : out[j].attempt <= i

\* the peer wrote two valid requests without Connection: close in a single
\* write, and no transport event has disturbed the session
PipelinedPair ==
  /\ Len(script) = 2
  /\ \A i \in 1..2 : script[i].wellformed /\ ~script[i].close
  /\ sends = 1 /\ toSend = <<>>
  /\ ~peerClosed
  /\ \A i \in DOMAIN log : log[i].event = "none"

\* C1: two valid requests without Connection: close, written back-to-back
\* in one write, get exactly two responses in request order, and the
\* session is then awaiting the next request, not closed.
C1_Pipelining ==
  PipelinedPair =>
    /\ pc \in {"loop", "peek", "readline"}
    /\ Len(out) <= 2
    /\ \A j \in DOMAIN out :
         /\ out[j].res.StatusCode \in {200, 404}
         /\ out[j].res.Request # NilRequest
         /\ out[j].res.Request.URL = script[j].url
    /\ (wire = <<>> /\ pc \in {"loop", "peek"} => Len(out) = 2)

\* C2: a read deadline that expires after the attempt has consumed one or
\* more bytes, whatever they are, ends the attempt with exactly one 400
\* response carrying Connection: close, no 200 or 404, and a closed
\* connection.
\* (Stated for the attempts that do not end in a panic of the goroutine.)
C2_PartialTimeout ==
  \A i \in DOMAIN log :
    log[i].event = "timeout" /\ log[i].consumed > 0 /\ log[i].after # "panic" =>
      OneBadRequest(i) /\ ClosedAt(i)

\* C3: an attempt that ends with zero bytes consumed because the deadline
\* expired or the peer reached end of stream closes the connection and
\* writes no response.
C3_SilentClose ==
  \A i \in DOMAIN log :
    log[i].consumed = 0 /\ log[i].event \in {"timeout", "eof"} =>
      /\ log[i].nresp = 0
      /\ ResponsesOf(i) = {}
      /\ ClosedAt(i)

\* an idle timeout closed the connection silently after a request was served
C3_Witness ==
  /\ Len(log) = 2 /\ Len(out) = 1
  /\ log[2].consumed = 0 /\ log[2].event = "timeout"
  /\ pc = "closed"

\* C4: an attempt that ReadRequest rejects as malformed gets exactly one 400
\* response with Connection: close and nothing else, the connection is
\* closed and no further request is read; a 400 is the last response of
\* its connection.
C4_MalformedTerminal ==
  /\ \A i \in DOMAIN log :
       log[i].kind = "err" /\ log[i].err = "malformed" =>
         OneBadRequest(i) /\ ClosedAt(i)
  /\ \A j \in DOMAIN out :
       out[j].res.StatusCode = 400 => j = Len(out) /\ pc = "closed"

\* a malformed request was answered with a 400 after an earlier response,
\* and bytes of a later request stay unread
C4_Witness ==
  /\ Len(log) = 2 /\ Len(out) = 2
  /\ log[2].err = "malformed"
  /\ out[2].res.StatusCode = 400
  /\ pc = "closed"

\* C5: once the response to a successfully parsed request is written, the
\* connection is closed if and only if the request's close flag is set:
\* with the flag set nothing more is read or answered, with the flag clear
\* the session is back at the start of the loop.
C5_CloseIffFlag ==
  \A i \in DOMAIN log :
    log[i].kind = "ok" /\ log[i].nresp = 1 =>
      /\ log[i].req.Close <=> log[i].after = "closed"
      /\ log[i].req.Close => ClosedAt(i)
      /\ ~log[i].req.Close =>
           /\ log[i].after = "loop"
           /\ i = Len(log) => pc \in {"loop", "peek", "readline"}

\* a request with Connection: close was answered and the connection closed
\* with a pipelined request still unread
C5_Witness ==
  /\ Len(log) = 1 /\ Len(out) = 1
  /\ log[1].kind = "ok" /\ log[1].req.Close
  /\ pc = "closed"
  /\ wire # <<>>

\* path is the document root or lies below it
UnderRoot(root, path) == path = root \/ HasPrefix(path, root \o <<"/">>)

\* C6: a valid request gets a 200 only when the canonical path of the
\* document root joined with its URL lies under the document root, and
\* every URL whose canonical path lies outside the root gets a 404, for any
\* number of ".." segments and any depth of the root.
C6_PathContainment ==
  \A i \in DOMAIN log :
    log[i].kind = "ok" /\ log[i].event = "none" =>
      LET canon == Clean(DocRoot \o log[i].req.URL) IN
      /\ \A j \in ResponsesOf(i) :
           out[j].res.StatusCode = 200 => UnderRoot(DocRoot, canon)
      /\ ~UnderRoot(DocRoot, canon) =>
           /\ log[i].nresp = 1
           /\ Cardinality(ResponsesOf(i)) = 1
           /\ \A j \in ResponsesOf(i) : out[j].res.StatusCode = 404

\* C7: a 200 carries Date, Last-Modified, Content-Type and Content-Length
\* and a body reference; a 404 carries Date, none of the other three and no
\* body reference; a 200 or 404 carries Connection: close exactly when its
\* request asked to close; a 400 carries Date and Connection: close, has no
\* body reference and no request.
C7_HeaderSets ==
  \A j \in DOMAIN out :
    LET res == out[j].res
        keys == DOMAIN res.Header
        entity == {KeyLastModified, KeyContentType, KeyContentLength}
    IN
    /\ res.StatusCode \in {200, 400, 404}
    /\ KeyDate \in keys
    /\ res.StatusCode = 200 => entity \subseteq keys /\ res.FilePath # <<>>
    /\ res.StatusCode = 404 => entity \cap keys = {} /\ res.FilePath = <<>>
    /\ res.StatusCode \in {200, 404} =>
         /\ res.Request # NilRequest
         /\ res.Request = log[out[j].attempt].req
         /\ KeyConnection \in keys <=> res.Request.Close
         /\ HasConnectionClose(res) <=> res.Request.Close
    /\ res.StatusCode = 400 =>
         /\ HasConnectionClose(res)
         /\ entity \cap keys = {}
         /\ res.FilePath = <<>>
         /\ res.Request = NilRequest

\* a 404 for a request that asked to close
C7_Witness ==
  /\ Len(out) = 1
  /\ out[1].res.StatusCode = 404
  /\ out[1].res.Request.Close
  /\ HasConnectionClose(out[1].res)

\* attempt i got as far as parsing the lines it had read
Parsed(i) ==
  /\ log[i].kind \in {"ok", "err", "panic"}
  /\ log[i].err \in {"nil", "malformed"}

\* C8: a start line of exactly three fields whose method is not GET, whose
\* URL does not begin with "/" (an empty URL included) or whose version is
\* not HTTP/1.1 makes ReadRequest return a nil request and a malformed
\* error, and the session answers with a 400.
C8_StartLineValidation ==
  \A i \in DOMAIN log :
    Parsed(i) /\ log[i].event = "none" /\ log[i].lines # <<>> =>
      LET fields == SplitN(log[i].lines[1], SP, 3) IN
      (/\ Len(fields) = 3
       /\ \/ fields[1] # GET
          \/ fields[2] = <<>>
          \/ Head(fields[2]) # "/"
          \/ fields[3] # responseProto)
        => /\ log[i].kind = "err" /\ log[i].err = "malformed"
           /\ log[i].req = NilRequest
           /\ OneBadRequest(i)

\* the canonical key of a header line that holds a colon
KeyOfLine(line) == CanonicalHeaderKey(Take(line, IndexByte(line, ":") - 1))

\* KEY ":" (SP)* VALUE with KEY in [A-Za-z0-9-]+
KeyChars ==
  {"A", "B", "C", "D", "E", "G", "H", "L", "M", "N", "O", "P", "R", "T", "U",
   "a", "b", "c", "d", "e", "f", "g", "h", "i", "l", "m", "n", "o", "p", "q",
   "r", "s", "t", "u", "x", "y", "0", "1", "2", "4", "-"}

WellFormedHeaderLine(line) ==
  /\ IndexByte(line, ":") > 1
  /\ \A k \in 1..(IndexByte(line, ":") - 1) : line[k] \in KeyChars

WellFormedStartLine(line) ==
  LET fields == SplitN(line, SP, 3) IN
  /\ Len(fields) = 3
  /\ fields[1] = GET
  /\ fields[2] # <<>> /\ Head(fields[2]) = "/"
  /\ fields[3] = responseProto

HasHostLine(lines) ==
  \E k \in 2..Len(lines) :
    IndexByte(lines[k], ":") > 1 /\ KeyOfLine(lines[k]) = KeyHost

\* C9: a request whose start line and header lines are all well-formed but
\* which has no Host header is rejected as malformed (nil request and an
\* error), and ReadRequest returns a request only if some header line has
\* the canonical key Host.
C9_HostRequired ==
  \A i \in DOMAIN log :
    Parsed(i) =>
      /\ (/\ log[i].lines # <<>>
          /\ WellFormedStartLine(log[i].lines[1])
          /\ \A k \in 2..Len(log[i].lines) : WellFormedHeaderLine(log[i].lines[k])
          /\ ~HasHostLine(log[i].lines))
         => /\ log[i].kind = "err" /\ log[i].err = "malformed"
            /\ log[i].req = NilRequest
      /\ log[i].kind = "ok" => HasHostLine(log[i].lines)

\* a request with a valid start line, a Connection header and no Host was
\* rejected
C9_Witness ==
  /\ Len(log) = 1
  /\ Len(log[1].lines) = 2
  /\ WellFormedStartLine(log[1].lines[1])
  /\ WellFormedHeaderLine(log[1].lines[2])
  /\ ~HasHostLine(log[1].lines)
  /\ log[1].kind = "err"

\* the keys in ascending order: the key at position n has n - 1 keys
\* below it
Ascending(keys) ==
  LET below == [k \in keys |-> Cardinality({j \in keys : StrLess(j, k)})]
  IN [n \in 1..Cardinality(keys) |-> CHOOSE k \in keys : below[k] = n - 1]

\* one "KEY: VALUE CRLF" for every key of ks, in the order of ks
RECURSIVE LinesOf(_, _)
LinesOf(ks, Header) ==
  IF ks = <<>> THEN <<>>
  ELSE Head(ks) \o <<":", SP>> \o Header[Head(ks)] \o <<CR, LF>>
         \o LinesOf(Tail(ks), Header)

ReasonPhrase(code) ==
  IF code = 200 THEN <<"2", "0", "0", SP, "O", "K">>
  ELSE IF code = 404 THEN <<"4", "0", "4", SP, "N", "o", "t", SP, "F", "o", "u", "n", "d">>
  ELSE <<"4", "0", "0", SP, "B", "a", "d", SP, "R", "e", "q", "u", "e", "s", "t">>

\* the serialization of res: status line, headers in ascending order of
\* key, empty line, body
Wire(res) ==
  <<"H", "T", "T", "P", "/", "1", ".", "1", SP>> \o ReasonPhrase(res.StatusCode)
    \o <<CR, LF>>
    \o LinesOf(Ascending(DOMAIN res.Header), res.Header)
    \o <<CR, LF>>
    \o (IF res.FilePath = <<>> THEN <<>> ELSE FileContent(DocRoot, res.FilePath))

\* C10: Response.Write emits the status line, then every header once as
\* "KEY: VALUE CRLF" in ascending order of key, then an empty line, then the
\* body bytes if there is a body reference; a write that fails has emitted
\* a prefix of that, so no byte of a later section precedes a byte of an
\* earlier one.
C10_WriteFormat ==
  out # <<>> =>
    IF lastWrite.err
    THEN HasPrefix(Wire(out[Len(out)].res), lastWrite.bytes)
    ELSE lastWrite.bytes = Wire(out[Len(out)].res)

\* a 200 with a Connection header and a body was written in full
C10_Witness ==
  /\ out # <<>>
  /\ out[Len(out)].res.StatusCode = 200
  /\ Cardinality(DOMAIN out[Len(out)].res.Header) = 5
  /\ ~lastWrite.err
  /\ Len(lastWrite.bytes) > 0

\* C11: ReadRequest returns a request only if the empty line that ends the
\* header section was read from the stream; an attempt whose read was ended
\* by a transport error (timeout, end of stream, other I/O error) before
\* that empty line returns a nil request together with that error, whatever
\* the lines received so far.
C11_Framing ==
  \A i \in DOMAIN log :
    /\ log[i].kind = "ok" => log[i].event = "none"
    /\ log[i].event \in {"timeout", "eof", "other"} =>
         /\ log[i].kind = "err"
         /\ log[i].req = NilRequest
         /\ log[i].err = log[i].event

\* C12: an attempt for which ReadRequest returns a transport error that is
\* neither end of stream nor a deadline expiry closes the connection and
\* writes no response at all.
C12_OtherErrorSilent ==
  \A i \in DOMAIN log :
    log[i].kind = "err" /\ log[i].err = "other" =>
      /\ log[i].nresp = 0
      /\ ResponsesOf(i) = {}
      /\ ClosedAt(i)

\* C13: when Response.Write returns an error for the response to a
\* successfully parsed request, the connection is closed and no further
\* request is read from it, with or without the request's close flag.
C13_WriteErrorTerminates ==
  (/\ out # <<>>
   /\ lastWrite.err
   /\ log[out[Len(out)].attempt].kind = "ok")
    => pc = "closed"

\* the canonical path of the document root joined with the URL of req,
\* index.html added to a URL that ends with a slash
CanonicalPath(req) ==
  Clean(DocRoot \o (IF req.URL[Len(req.URL)] = "/" THEN req.URL \o IndexHTML
                    ELSE req.URL))

\* C14: for a valid request whose canonical path lies under the document
\* root, the response is a 200 only if the path names an existing regular
\* file; a path that does not exist or that names a directory gets a 404.
\* (Stated for the attempts that read their terminating empty line and
\* whose stat of the path does not fail.)
C14_RegularFileOnly ==
  \A i \in DOMAIN log :
    (/\ log[i].kind = "ok"
     /\ log[i].event = "none"
     /\ log[i].stat # "fail"
     /\ UnderRoot(DocRoot, CanonicalPath(log[i].req))) =>
      LET kindOfPath == FileKind(DocRoot, CanonicalPath(log[i].req)) IN
      /\ \A j \in ResponsesOf(i) :
           out[j].res.StatusCode = 200 => kindOfPath = "file"
      /\ kindOfPath # "file" =>
           /\ log[i].nresp = 1
           /\ Cardinality(ResponsesOf(i)) = 1
           /\ \A j \in ResponsesOf(i) :
                out[j].res.StatusCode = 404 /\ out[j].res.FilePath = <<>>

\* C15: when the existence check of the resolved path succeeds and the
\* stat that follows fails, the response is a 404 without a body
\* reference, nothing else is written for the request, and the session
\* goes on with its state machine (closed if the request asked for it, back
\* at the loop head otherwise).
C15_StatFailsClosed ==
  \A i \in DOMAIN log :
    log[i].stat = "fail" =>
      /\ log[i].nresp = 1
      /\ Cardinality(ResponsesOf(i)) = 1
      /\ \A j \in ResponsesOf(i) :
           out[j].res.StatusCode = 404 /\ out[j].res.FilePath = <<>>
      /\ log[i].after = (IF log[i].req.Close THEN "closed" ELSE "loop")

\* C16: every call of ReadRequest runs under a deadline armed by its own
\* SetReadDeadline call at the start of that attempt, never under the one
\* armed for an earlier request; an attempt whose arming fails closes the
\* connection without reading or writing anything.
C16_DeadlineRearmed ==
  /\ pc \in {"peek", "readline"} => armedFor = Len(log) + 1
  /\ \A i \in DOMAIN log :
       /\ log[i].kind # "noread" => log[i].deadline = i
       /\ log[i].event = "armfail" =>
            /\ log[i].kind = "noread"
            /\ log[i].consumed = 0
            /\ log[i].nresp = 0
            /\ ResponsesOf(i) = {}
            /\ ClosedAt(i)

\* the second of two pipelined requests is being read under the deadline
\* armed for it
C16_Witness ==
  /\ Len(log) = 1 /\ log[1].kind = "ok" /\ log[1].deadline = 1
  /\ log[1].consumed < Len(ScriptBytes(script))
  /\ sends = 1 /\ toSend = <<>>
  /\ pc = "readline"
  /\ armedFor = 2

\* the value of a header line: what follows the first colon, without the
\* spaces in front of it
ValueOfLine(line) == TrimLeft(Drop(line, IndexByte(line, ":")), {SP})

\* the header lines of lines whose canonical key is key
LinesWithKey(lines, key) ==
  {k \in 2..Len(lines) : IndexByte(lines[k], ":") > 1 /\ KeyOfLine(lines[k]) = key}

\* C17: in every successfully parsed Request, Host and Connection are not
\* keys of the Header mapping, the Host field is the value of a Host header
\* line, and the Close flag is set if and only if some Connection header
\* line has the value "close", spelled exactly so.
C17_SpecialHeaders ==
  \A i \in DOMAIN log :
    log[i].kind = "ok" =>
      LET req == log[i].req
          lines == log[i].lines
      IN
      /\ KeyHost \notin DOMAIN req.Header
      /\ KeyConnection \notin DOMAIN req.Header
      /\ \E k \in LinesWithKey(lines, KeyHost) : req.Host = ValueOfLine(lines[k])
      /\ req.Close <=>
           \E k \in LinesWithKey(lines, KeyConnection) :
             ValueOfLine(lines[k]) = <<"c", "l", "o", "s", "e">>

\* a request with a Connection header whose value is not "close" was parsed
\* and its close flag is clear
C17_Witness ==
  /\ Len(log) = 1 /\ log[1].kind = "ok"
  /\ LinesWithKey(log[1].lines, KeyConnection) # {}
  /\ ~log[1].req.Close
  /\ log[1].req.Host = <<"x">>

\* C18: what one connection sends cannot stop the service of another: as
\* long as no goroutine of its own has panicked, a connection that waits to
\* be accepted is still going to be accepted, and a valid request pending
\* on an accepted connection is still going to be answered, which both
\* need the process to run.
C18_Isolation ==
  \A c \in Conns :
    panicked \notin {0, c} =>
      /\ conns[c].state # "unaccepted"
      /\ ~(/\ conns[c].state = "open"
           /\ conns[c].pending # <<>>
           /\ Head(conns[c].pending).wellformed)

\* C19: the state Closed is the only way a session ends, and a closed
\* session reads and writes nothing more.  (The part of the claim that a
\* finite run can refute: a session that ends anywhere else never reaches
\* Closed, with or without a fair scheduler.)
C19_Termination ==
  [][/\ pc' \notin {"loop", "peek", "readline"} => pc' = "closed"
     /\ pc = "closed" =>
          UNCHANGED <<pc, wire, requestLineArr, consumed, out, lastWrite, log>>]_vars

\* the bytes of the complete lines an attempt has accumulated
LinesBytes(lines) == Len(Concat([k \in 1..Len(lines) |-> lines[k] \o <<CR, LF>>]))

\* the read of attempt i was ended by a transport event after one or more
\* bytes of a line whose CRLF never came
Unterminated(i) ==
  /\ log[i].event \in {"timeout", "eof", "other"}
  /\ log[i].consumed > LinesBytes(log[i].lines)

\* C20: when the peer closes its side after bytes of an unterminated line
\* were consumed, the session closes the connection and writes no
\* response; a deadline that expires at the same point gets one 400 with
\* Connection: close before the connection is closed.
C20_EOFPrecedence ==
  \A i \in DOMAIN log :
    Unterminated(i) =>
      /\ log[i].event = "eof" =>
           /\ log[i].nresp = 0
           /\ ResponsesOf(i) = {}
           /\ ClosedAt(i)
      /\ log[i].event = "timeout" => OneBadRequest(i) /\ ClosedAt(i)

\* the peer closed in the middle of the start line and the session closed
\* without a response
C20_Witness ==
  /\ Len(log) = 1
  /\ log[1].event = "eof"
  /\ log[1].lines = <<>>
  /\ log[1].consumed > 0
  /\ out = <<>>
  /\ pc = "closed"

====
